---- MODULE Spec2Model ----
(***************************************************************************)
(* deno_kv_oauth: the OAuth sign-in / callback / sign-out flow and its two *)
(* kinds of server-side session records (OAuth handshake sessions and site *)
(* sessions) kept in Deno KV.                                              *)
(*                                                                         *)
(* handleCallback (lib/handle_callback.ts) and createHelpers               *)
(* (lib/create_helpers.ts) are modelled from their code.  lib/_kv.ts,      *)
(* lib/_http.ts, lib/sign_in.ts, lib/sign_out.ts and lib/get_session_id.ts *)
(* are modelled from the specification's description of them.             *)
(*                                                                         *)
(* handleCallback is an async function: it is split at its three awaits    *)
(* (KV read-and-delete, token exchange, KV write), so that several         *)
(* callback requests interleave as they do on the event loop.              *)
(***************************************************************************)
EXTENDS Integers, Sequences, FiniteSets, TLC

VARIABLES
    options,     \* CreateHelpersOptions.cookieOptions given to createHelpers
    origin,      \* [https]: the scheme of the URLs the application is served at
    oauth,       \* KV: OAuth session id -> [value, expireIn]
    site,        \* KV: site session id -> [expireIn]
    signIns,     \* OAuth session id -> the response signIn returned for it
    req,         \* the handleCallback invocations, one per slot
    expired,     \* OAuth session ids whose record the KV store expired
    signedOut    \* the (name, value) site cookies signOut was called with

vars == <<options, origin, oauth, site, signIns, req, expired, signedOut>>

----------------------------------------------------------------------------
(* Bounds *)

NumReq == 2        \* handleCallback invocations
MaxSignIns == 2    \* signIn invocations

----------------------------------------------------------------------------
(* Values *)

Undefined == -1            \* JavaScript undefined, for numbers and ids
UnknownId == MaxSignIns + NumReq + 1
                           \* a well-formed id that no randomUUID() call returns
NoUrl == ""                \* an absent header or option holding a URL
Empty == <<>>              \* an object without properties, an empty cookie jar

SECOND == 1000
OAUTH_SESSION_TTL == 600000

OAUTH_COOKIE_NAME == "oauth-session"
SITE_COOKIE_NAME == "site-session"

COOKIE_BASE == [httpOnly |-> TRUE, sameSite |-> "Lax", path |-> "/"]

\* { ...base, ...over }: object spread, the later properties win
Spread(base, over) ==
    [k \in DOMAIN base \cup DOMAIN over |->
        IF k \in DOMAIN over THEN over[k] ELSE base[k]]

\* obj?.key, Undefined when the property is absent
Prop(obj, key, undef) == IF key \in DOMAIN obj THEN obj[key] ELSE undef

getCookieName(name, https) == IF https THEN "__Host-" \o name ELSE name

\* isHttps(request.url)
isHttps(request) == request.https

\* getCookies(request.headers)[name]
getCookie(request, name) == Prop(request.cookies, name, Undefined)

\* crypto.randomUUID(): an id never handed out before.  Each call site's
\* n-th call draws from a range of its own, so that ids differ across calls.
randomUUID(n) == n

redirect(location) == [status |-> 302, location |-> location, cookies |-> {}]

\* setCookie(response.headers, cookie)
setCookie(response, cookie) ==
    [response EXCEPT !.cookies = @ \cup {cookie}]

----------------------------------------------------------------------------
(* The cookie overrides an application may give to createHelpers *)

CookieOptions ==
    { Empty,
      [secure |-> FALSE],
      [value |-> UnknownId],
      [name |-> "custom"],
      [maxAge |-> 0],
      [maxAge |-> 2] }

----------------------------------------------------------------------------
(* lib/_kv.ts: the two kinds of session records in Deno KV *)

IsOAuthSession(id) == id \in DOMAIN oauth

\* setOAuthSession(id, value, { expireIn })
setOAuthSession(id, value, expireIn) ==
    oauth' = (id :> [value |-> value, expireIn |-> expireIn]) @@ oauth

\* getAndDeleteOAuthSession(id): one atomic KV operation.  The caller reads
\* oauth[id].value when IsOAuthSession(id); otherwise NotFound is thrown.
getAndDeleteOAuthSession(id) ==
    oauth' = [k \in DOMAIN oauth \ {id} |-> oauth[k]]

isSiteSession(id) == id \in DOMAIN site

\* setSiteSession(id, expireIn)
setSiteSession(id, expireIn) ==
    site' = (id :> [expireIn |-> expireIn]) @@ site

\* deleteSiteSession(id): deleting an absent key is not an error
deleteSiteSession(id) ==
    site' = [k \in DOMAIN site \ {id} |-> site[k]]

----------------------------------------------------------------------------
(* The handleCallback invocations *)

Reqs == 1..NumReq

NoRequest == [https |-> FALSE, cookies |-> Empty, url |-> Empty]

IdleReq ==
    [ pc |-> "idle",
      request |-> NoRequest,
      oauthSessionId |-> Undefined,
      oauthSession |-> Empty,
      exchanged |-> FALSE,
      tokens |-> Empty,
      sessionId |-> Undefined,
      cookie |-> Empty,
      response |-> Empty,
      error |-> "" ]

Init ==
    /\ options \in CookieOptions
    /\ origin \in {[https |-> h] : h \in BOOLEAN}
    /\ oauth = Empty
    /\ site = Empty
    /\ signIns = Empty
    /\ req = [r \in Reqs |-> IdleReq]
    /\ expired = {}
    /\ signedOut = {}

----------------------------------------------------------------------------
(* The OAuth client and the provider *)

AUTHORIZATION_URL == "https://provider/authorize"

\* How many sign-ins were started; the next sign-in's state and PKCE
\* verifier are fresh values, modelled by the sign-in's ordinal.
NumSignIns == Cardinality(DOMAIN signIns)

\* The provider redeems a code only with the verifier whose challenge came
\* with the authorization request the code was issued for.
ProviderAccepts(code, codeVerifier) == code >= 1 /\ code = codeVerifier

\* new OAuth2Client(config).code.getToken(url, { state, codeVerifier }):
\* rejects a callback URL whose state is not the given one, then redeems the
\* code at the token endpoint, which may also fail as any network call may.
GetTokenSucceeds(url, oauthSession, networkOk) ==
    /\ url.state = oauthSession.state
    /\ ProviderAccepts(url.code, oauthSession.codeVerifier)
    /\ networkOk

Tokens(url) == [accessToken |-> url.code, tokenType |-> "Bearer"]

----------------------------------------------------------------------------
(* signIn(request, oauthConfig, options), bound by createHelpers *)

SignInInputs ==
    { [successUrl |-> "/dashboard", referer |-> "/from"],
      [successUrl |-> NoUrl, referer |-> "/from"],
      [successUrl |-> NoUrl, referer |-> NoUrl] }

\* A getSuccessUrl that prefers the Referer header to the option
getSuccessUrlRefererFirst(optSuccessUrl, referer) ==
    IF referer # NoUrl THEN referer
    ELSE IF optSuccessUrl # NoUrl THEN optSuccessUrl
    ELSE "/"

\* options?.successUrl ?? request.headers.get("referer") ?? "/"
getSuccessUrl(optSuccessUrl, referer) ==
    IF optSuccessUrl # NoUrl THEN optSuccessUrl
    ELSE IF referer # NoUrl THEN referer
    ELSE "/"

SignIn(optSuccessUrl, referer) ==
    /\ NumSignIns < MaxSignIns
    /\ LET request == [https |-> origin.https, cookies |-> Empty, url |-> Empty]
           state == NumSignIns + 1
           codeVerifier == NumSignIns + 1
           oauthSessionId == randomUUID(NumSignIns + 1)
           cookie == Spread(COOKIE_BASE,
                        [ name |-> getCookieName(OAUTH_COOKIE_NAME, isHttps(request)),
                          value |-> oauthSessionId,
                          secure |-> isHttps(request),
                          maxAge |-> OAUTH_SESSION_TTL \div SECOND ])
           response == setCookie(redirect(AUTHORIZATION_URL), cookie)
           oauthSession == [ state |-> state,
                             codeVerifier |-> codeVerifier,
                             successUrl |-> getSuccessUrl(optSuccessUrl, referer) ]
       IN /\ setOAuthSession(oauthSessionId, oauthSession, OAUTH_SESSION_TTL)
          /\ signIns' = (oauthSessionId :>
                            [ request |-> request, response |-> response,
                              cookie |-> cookie, oauthSession |-> oauthSession,
                              input |-> [ successUrl |-> optSuccessUrl,
                                          referer |-> referer ] ])
                        @@ signIns
    /\ UNCHANGED <<options, origin, site, req, expired, signedOut>>

----------------------------------------------------------------------------
(* handleCallback(request, oauthConfig, options), bound by createHelpers *)

\* The callback requests a browser, or anyone else, may send: with the
\* cookie some sign-in set and a URL whose state is that sign-in's or one it
\* did not issue (0), and whose code is the one the provider issued for that
\* sign-in or one it did not (0); or with no cookie, or with a well-formed
\* id no sign-in created.  handleCallback reads the URL only once it holds
\* an OAuth session, so the requests of the last two kinds come with one URL.
CallbackUrls(h) ==
    {[state |-> s, code |-> c] :
        s \in {0, signIns[h].oauthSession.state},
        c \in {0, signIns[h].oauthSession.codeVerifier}}

CallbackRequests ==
    UNION {{[https |-> origin.https, cookies |-> (signIns[h].cookie.name :> h), url |-> u] :
                u \in CallbackUrls(h)} : h \in DOMAIN signIns}
    \cup {[https |-> origin.https, cookies |-> c, url |-> [state |-> 0, code |-> 0]] :
        c \in {Empty, (getCookieName(OAUTH_COOKIE_NAME, origin.https) :> UnknownId)}}

\* createHelpers' handleCallback: passes its cookieOptions on
HelperCallbackOptions == [cookieOptions |-> options]

\* A handleCallback that goes on without the cookie instead of throwing
CallbackBeginNoThrow(r, request) ==
    /\ req[r].pc = "idle"
    /\ \A q \in Reqs : q < r => req[q].pc # "idle"
    /\ LET oauthCookieName == getCookieName(OAUTH_COOKIE_NAME, isHttps(request))
           oauthSessionId == getCookie(request, oauthCookieName)
       IN req' = [req EXCEPT ![r] =
              [@ EXCEPT !.pc = "consume", !.request = request,
                        !.oauthSessionId = oauthSessionId]]
    /\ UNCHANGED <<options, origin, oauth, site, signIns, expired, signedOut>>

\* A handleCallback that looks the OAuth cookie up under cookieOptions.name
CallbackBeginOverrideName(r, request) ==
    /\ req[r].pc = "idle"
    /\ \A q \in Reqs : q < r => req[q].pc # "idle"
    /\ LET oauthCookieName ==
               Prop(HelperCallbackOptions.cookieOptions, "name",
                    getCookieName(OAUTH_COOKIE_NAME, isHttps(request)))
           oauthSessionId == getCookie(request, oauthCookieName)
       IN req' = [req EXCEPT ![r] =
              IF oauthSessionId = Undefined
              THEN [@ EXCEPT !.pc = "failed", !.request = request,
                             !.error = "OAuth cookie not found"]
              ELSE [@ EXCEPT !.pc = "consume", !.request = request,
                             !.oauthSessionId = oauthSessionId]]
    /\ UNCHANGED <<options, origin, oauth, site, signIns, expired, signedOut>>

\* Lines 62-67: the cookie lookup, throwing when the cookie is absent
CallbackBegin(r, request) ==
    /\ req[r].pc = "idle"
    /\ \A q \in Reqs : q < r => req[q].pc # "idle"
    /\ LET oauthCookieName == getCookieName(OAUTH_COOKIE_NAME, isHttps(request))
           oauthSessionId == getCookie(request, oauthCookieName)
       IN req' = [req EXCEPT ![r] =
              IF oauthSessionId = Undefined
              THEN [@ EXCEPT !.pc = "failed", !.request = request,
                             !.error = "OAuth cookie not found"]
              ELSE [@ EXCEPT !.pc = "consume", !.request = request,
                             !.oauthSessionId = oauthSessionId]]
    /\ UNCHANGED <<options, origin, oauth, site, signIns, expired, signedOut>>

\* A handleCallback that reads the OAuth session and leaves it in the store
CallbackConsumeNoDelete(r) ==
    /\ req[r].pc = "consume"
    /\ LET oauthSessionId == req[r].oauthSessionId
       IN IF IsOAuthSession(oauthSessionId)
          THEN req' = [req EXCEPT ![r].pc = "exchange",
                                  ![r].oauthSession = oauth[oauthSessionId].value]
          ELSE req' = [req EXCEPT ![r].pc = "failed",
                                  ![r].error = "OAuth session not found"]
    /\ UNCHANGED <<options, origin, oauth, site, signIns, expired, signedOut>>

\* A handleCallback that goes on with no OAuth session when none is stored
CallbackConsumeNoThrow(r) ==
    /\ req[r].pc = "consume"
    /\ LET oauthSessionId == req[r].oauthSessionId
       IN IF IsOAuthSession(oauthSessionId)
          THEN /\ getAndDeleteOAuthSession(oauthSessionId)
               /\ req' = [req EXCEPT ![r].pc = "exchange",
                                     ![r].oauthSession = oauth[oauthSessionId].value]
          ELSE /\ req' = [req EXCEPT ![r].pc = "exchange",
                                     ![r].oauthSession =
                                         [ state |-> Undefined,
                                           codeVerifier |-> Undefined,
                                           successUrl |-> "/" ]]
               /\ UNCHANGED oauth
    /\ UNCHANGED <<options, origin, site, signIns, expired, signedOut>>

\* A handleCallback that writes the site session as soon as it holds the
\* OAuth session, before the token exchange
CallbackConsumeThenWrite(r) ==
    /\ req[r].pc = "consume"
    /\ LET oauthSessionId == req[r].oauthSessionId
       IN IF IsOAuthSession(oauthSessionId)
          THEN /\ getAndDeleteOAuthSession(oauthSessionId)
               /\ setSiteSession(randomUUID(MaxSignIns + r), Undefined)
               /\ req' = [req EXCEPT ![r].pc = "exchange",
                                     ![r].oauthSession = oauth[oauthSessionId].value]
          ELSE /\ req' = [req EXCEPT ![r].pc = "failed",
                                     ![r].error = "OAuth session not found"]
               /\ UNCHANGED <<oauth, site>>
    /\ UNCHANGED <<options, origin, signIns, expired, signedOut>>

\* Line 68: await getAndDeleteOAuthSession(oauthSessionId)
CallbackConsume(r) ==
    /\ req[r].pc = "consume"
    /\ LET oauthSessionId == req[r].oauthSessionId
       IN IF IsOAuthSession(oauthSessionId)
          THEN /\ getAndDeleteOAuthSession(oauthSessionId)
               /\ req' = [req EXCEPT ![r].pc = "exchange",
                                     ![r].oauthSession = oauth[oauthSessionId].value]
          ELSE /\ req' = [req EXCEPT ![r].pc = "failed",
                                     ![r].error = "OAuth session not found"]
               /\ UNCHANGED oauth
    /\ UNCHANGED <<options, origin, site, signIns, expired, signedOut>>

\* A handleCallback that keeps the OAuth session id as the site session id
CallbackResolvedReuseId(r, tokens) ==
    LET request == req[r].request
        oauthSession == req[r].oauthSession
        sessionId == req[r].oauthSessionId
        response == redirect(oauthSession.successUrl)
        cookie == Spread(
            Spread(COOKIE_BASE,
                [ name |-> getCookieName(SITE_COOKIE_NAME, isHttps(request)),
                  value |-> sessionId,
                  secure |-> isHttps(request) ]),
            HelperCallbackOptions.cookieOptions)
    IN [req EXCEPT ![r].pc = "write",
                   ![r].exchanged = TRUE,
                   ![r].tokens = tokens,
                   ![r].sessionId = sessionId,
                   ![r].cookie = cookie,
                   ![r].response = setCookie(response, cookie)]

\* Lines 73-82, once getToken has resolved: the session id, the redirect
\* to the stored successUrl and the cookie, with cookieOptions spread last
CallbackResolved(r, tokens) ==
    LET request == req[r].request
        oauthSession == req[r].oauthSession
        sessionId == randomUUID(MaxSignIns + r)
        response == redirect(oauthSession.successUrl)
        cookie == Spread(
            Spread(COOKIE_BASE,
                [ name |-> getCookieName(SITE_COOKIE_NAME, isHttps(request)),
                  value |-> sessionId,
                  secure |-> isHttps(request) ]),
            HelperCallbackOptions.cookieOptions)
    IN [req EXCEPT ![r].pc = "write",
                   ![r].exchanged = TRUE,
                   ![r].tokens = tokens,
                   ![r].sessionId = sessionId,
                   ![r].cookie = cookie,
                   ![r].response = setCookie(response, cookie)]

\* getToken has thrown: handleCallback throws what it threw
CallbackRejected(r) ==
    [req EXCEPT ![r].pc = "failed",
                ![r].exchanged = TRUE,
                ![r].error = "token exchange failed"]

\* A handleCallback that catches the failure of getToken and goes on
CallbackGetTokenCaught(r, networkOk) ==
    /\ req[r].pc = "exchange"
    /\ req' = CallbackResolved(r, Tokens(req[r].request.url))
    /\ UNCHANGED <<options, origin, oauth, site, signIns, expired, signedOut>>

\* A handleCallback that passes getToken the codeVerifier without the state
CallbackGetTokenNoState(r, networkOk) ==
    /\ req[r].pc = "exchange"
    /\ LET request == req[r].request
           oauthSession == req[r].oauthSession
       IN req' = IF GetTokenSucceeds(request.url,
                        [oauthSession EXCEPT !.state = request.url.state], networkOk)
                 THEN CallbackResolved(r, Tokens(request.url))
                 ELSE CallbackRejected(r)
    /\ UNCHANGED <<options, origin, oauth, site, signIns, expired, signedOut>>

\* A handleCallback that puts the OAuth session back when getToken throws
CallbackGetTokenRestore(r, networkOk) ==
    /\ req[r].pc = "exchange"
    /\ LET request == req[r].request
           oauthSession == req[r].oauthSession
       IN IF GetTokenSucceeds(request.url, oauthSession, networkOk)
          THEN /\ req' = CallbackResolved(r, Tokens(request.url))
               /\ UNCHANGED oauth
          ELSE /\ req' = CallbackRejected(r)
               /\ setOAuthSession(req[r].oauthSessionId, oauthSession, Undefined)
    /\ UNCHANGED <<options, origin, site, signIns, expired, signedOut>>

\* Lines 70-71: await getToken(request.url, oauthSession)
CallbackGetToken(r, networkOk) ==
    /\ req[r].pc = "exchange"
    /\ LET request == req[r].request
           oauthSession == req[r].oauthSession
       IN req' = IF GetTokenSucceeds(request.url, oauthSession, networkOk)
                 THEN CallbackResolved(r, Tokens(request.url))
                 ELSE CallbackRejected(r)
    /\ UNCHANGED <<options, origin, oauth, site, signIns, expired, signedOut>>

\* Lines 83-92: await setSiteSession(sessionId, expireIn); return
CallbackSetSiteSession(r) ==
    /\ req[r].pc = "write"
    /\ LET cookie == req[r].cookie
           maxAge == Prop(cookie, "maxAge", Undefined)
       IN setSiteSession(req[r].sessionId,
              IF maxAge # Undefined /\ maxAge # 0 THEN maxAge * SECOND ELSE Undefined)
    /\ req' = [req EXCEPT ![r].pc = "done"]
    /\ UNCHANGED <<options, origin, oauth, signIns, expired, signedOut>>

----------------------------------------------------------------------------
(* The KV store expires the records written with expireIn *)

ExpireOAuthSession(id) ==
    /\ IsOAuthSession(id)
    /\ oauth[id].expireIn # Undefined
    /\ oauth' = [k \in DOMAIN oauth \ {id} |-> oauth[k]]
    /\ expired' = expired \cup {id}
    /\ UNCHANGED <<options, origin, site, signIns, req, signedOut>>

ExpireSiteSession(id) ==
    /\ isSiteSession(id)
    /\ site[id].expireIn # Undefined
    /\ site' = [k \in DOMAIN site \ {id} |-> site[k]]
    /\ UNCHANGED <<options, origin, oauth, signIns, req, expired, signedOut>>

----------------------------------------------------------------------------
(* getSessionId and signOut, bound by createHelpers *)

SiteCookieName(cookieName) ==
    IF cookieName # "" THEN cookieName
    ELSE getCookieName(SITE_COOKIE_NAME, origin.https)

CookieJar(cookie) == (cookie.name :> cookie.value)

\* The site cookies a later request may carry: none, or the cookie that the
\* response of a returned callback set (the ids are unguessable)
SiteCookies ==
    {Empty}
    \cup {CookieJar(req[r].cookie) : r \in {q \in Reqs : req[q].pc = "done"}}

\* A getSessionId that returns the cookie's value without looking it up
getSessionIdUnchecked(request, opts) ==
    getCookie(request, SiteCookieName(opts.cookieName))

\* getSessionId(request, { cookieName }): the cookie's value when a site
\* session is stored under it, otherwise undefined
getSessionId(request, opts) ==
    LET sessionId == getCookie(request, SiteCookieName(opts.cookieName))
    IN IF sessionId # Undefined /\ isSiteSession(sessionId)
       THEN sessionId
       ELSE Undefined

\* createHelpers' getSessionId: passes cookieOptions.name on as cookieName.
\* getSessionId changes nothing: what a call returns in a state is this value.
HelperGetSessionId(request) ==
    getSessionId(request, [cookieName |-> Prop(options, "name", "")])

\* signOut's response: a redirect to "/", which also clears the site cookie
\* when the request carried it
signOutResponse(request) ==
    LET cookieName == SiteCookieName(Prop(options, "name", ""))
    IN IF getCookie(request, cookieName) = Undefined
       THEN redirect("/")
       ELSE setCookie(redirect("/"),
                Spread(COOKIE_BASE, [name |-> cookieName, value |-> "", maxAge |-> 0]))

\* A signOut that, given no cookie, deletes every site session
SignOutAll(cookies) ==
    /\ LET request == [https |-> origin.https, cookies |-> cookies, url |-> Empty]
           cookieName == SiteCookieName(Prop(options, "name", ""))
           sessionId == getCookie(request, cookieName)
       IN IF sessionId = Undefined
          THEN site' = Empty /\ UNCHANGED signedOut
          ELSE /\ deleteSiteSession(sessionId)
               /\ signedOut' = signedOut \cup {<<cookieName, sessionId>>}
    /\ UNCHANGED <<options, origin, oauth, signIns, req, expired>>

\* signOut(request, { cookieOptions }), with createHelpers' cookieOptions:
\* deletes the site session the cookie names, if the request has the cookie
SignOut(cookies) ==
    /\ LET request == [https |-> origin.https, cookies |-> cookies, url |-> Empty]
           cookieName == SiteCookieName(Prop(options, "name", ""))
           sessionId == getCookie(request, cookieName)
       IN IF sessionId = Undefined
          THEN UNCHANGED <<site, signedOut>>
          ELSE /\ deleteSiteSession(sessionId)
               /\ signedOut' = signedOut \cup {<<cookieName, sessionId>>}
    /\ UNCHANGED <<options, origin, oauth, signIns, req, expired>>

----------------------------------------------------------------------------

Next ==
    \/ \E in \in SignInInputs : SignIn(in.successUrl, in.referer)
    \/ \E r \in Reqs, request \in CallbackRequests : CallbackBegin(r, request)
    \/ \E r \in Reqs : CallbackConsume(r)
    \/ \E r \in Reqs, networkOk \in BOOLEAN : CallbackGetToken(r, networkOk)
    \/ \E r \in Reqs : CallbackSetSiteSession(r)
    \/ \E id \in DOMAIN oauth : ExpireOAuthSession(id)
    \/ \E id \in DOMAIN site : ExpireSiteSession(id)
    \/ \E cookies \in SiteCookies : SignOut(cookies)

Spec == Init /\ [][Next]_vars

\* The KV store enforces expireIn: a record written with a TTL does not stay
\* in the store forever
FairSpec ==
    Spec /\ \A id \in 1..MaxSignIns : WF_vars(ExpireOAuthSession(id))

----------------------------------------------------------------------------
(* What a handleCallback invocation went through *)

\* its getAndDeleteOAuthSession call has settled
Consumed(r) == req[r].pc \notin {"idle", "consume"} /\ req[r].oauthSessionId # Undefined

\* its getAndDeleteOAuthSession call returned the record
Obtained(r) == req[r].oauthSession # Empty

NotFound(r) == req[r].pc = "failed" /\ req[r].error = "OAuth session not found"

\* it threw before anything past the named step was done
NothingAfterConsume(r) ==
    /\ ~req[r].exchanged
    /\ req[r].tokens = Empty
    /\ req[r].sessionId = Undefined
    /\ req[r].cookie = Empty
    /\ req[r].response = Empty
    /\ ~isSiteSession(randomUUID(MaxSignIns + r))

\* C1: of the callbacks that present the same handshake cookie, in whatever
\* order their steps interleave, at most one obtains the record; unless the
\* record expired first exactly one does; every other one fails with
\* not-found and never gets a session.
C1_ConsumedExactlyOnce ==
    \A h \in DOMAIN signIns :
        LET attempted == {r \in Reqs : Consumed(r) /\ req[r].oauthSessionId = h}
            holders == {r \in attempted : Obtained(r)}
        IN /\ Cardinality(holders) <= 1
           /\ (attempted # {} /\ h \notin expired) => Cardinality(holders) = 1
           /\ \A r \in attempted \ holders : NotFound(r) /\ NothingAfterConsume(r)
           /\ holders # {} => ~IsOAuthSession(h)

C1_Witness ==
    \E r1, r2 \in Reqs :
        /\ r1 # r2
        /\ req[r1].oauthSessionId = req[r2].oauthSessionId
        /\ req[r1].pc = "done"
        /\ NotFound(r2)

\* The request that carries the site cookie a callback's response set
CarryingCookieOf(r) ==
    [https |-> origin.https, cookies |-> CookieJar(req[r].cookie), url |-> Empty]

\* C2: every cookie the helpers emit has secure = TRUE exactly when the
\* request came over https, whatever cookieOptions the caller gave.
C2_SecureIffHttps ==
    /\ \A h \in DOMAIN signIns :
           signIns[h].cookie.secure = isHttps(signIns[h].request)
    /\ \A r \in Reqs :
           req[r].cookie # Empty => req[r].cookie.secure = isHttps(req[r].request)

\* C3: after a successful handleCallback the value of the site cookie of
\* the response is the returned sessionId, and the site session was written
\* under that sessionId, whatever cookieOptions the caller gave.
C3_CookieIsSessionId ==
    \A r \in Reqs :
        req[r].pc = "done" =>
            /\ req[r].response.cookies = {req[r].cookie}
            /\ req[r].cookie.value = req[r].sessionId
            /\ req[r].sessionId = randomUUID(MaxSignIns + r)

\* C4: while the site session a successful callback wrote is stored,
\* getSessionId on a request carrying the cookie of that callback's response
\* returns the sessionId the callback returned; once signOut was called with
\* a cookie, getSessionId with that cookie returns undefined ever after.
C4_RoundTrip ==
    /\ \A r \in Reqs :
           (req[r].pc = "done" /\ isSiteSession(req[r].sessionId)) =>
               HelperGetSessionId(CarryingCookieOf(r)) = req[r].sessionId
    /\ \A c \in signedOut :
           HelperGetSessionId(
               [https |-> origin.https, cookies |-> (c[1] :> c[2]), url |-> Empty])
           = Undefined

\* What holds of every callback request that came without the OAuth cookie
C5_MissingCookieInv ==
    \A r \in Reqs :
        (/\ req[r].pc # "idle"
         /\ getCookie(req[r].request,
                getCookieName(OAUTH_COOKIE_NAME, isHttps(req[r].request))) = Undefined)
        => /\ req[r].pc = "failed"
           /\ req[r].error = "OAuth cookie not found"
           /\ req[r].oauthSessionId = Undefined
           /\ req[r].oauthSession = Empty
           /\ NothingAfterConsume(r)

\* C5: a callback request without the OAuth cookie fails with "OAuth cookie
\* not found" before anything else is done: no OAuth session is read, no
\* token exchange is started, no site session is made; and the step that
\* fails it leaves the KV store as it was.
C5_MissingCookieFails ==
    /\ []C5_MissingCookieInv
    /\ [][\A r \in Reqs :
            (req[r].pc = "idle" /\ req'[r].pc = "failed") =>
                (oauth' = oauth /\ site' = site)]_vars

C5_Witness ==
    \E r \in Reqs :
        /\ req[r].pc = "failed"
        /\ req[r].error = "OAuth cookie not found"
        /\ req[r].request.cookies = Empty
        /\ DOMAIN oauth # {}

\* C6: a callback whose cookie names no stored OAuth session when its
\* getAndDeleteOAuthSession call is served (never created, already consumed
\* or expired) fails with not-found at that step, which leaves the KV store
\* as it was; no token exchange is started and no site session is made.
C6_UnknownIdNotFound ==
    /\ [](\A r \in Reqs : NotFound(r) => NothingAfterConsume(r))
    /\ [][\A r \in Reqs :
            (/\ req[r].pc = "consume"
             /\ req'[r].pc # "consume"
             /\ ~IsOAuthSession(req[r].oauthSessionId))
            => (NotFound(r)' /\ oauth' = oauth /\ site' = site)]_vars

C6_Witness ==
    \E r \in Reqs :
        /\ NotFound(r)
        /\ req[r].oauthSessionId = UnknownId
        /\ DOMAIN oauth # {}

ExchangeFailed(r) == req[r].pc = "failed" /\ req[r].error = "token exchange failed"

\* What holds of every callback whose token exchange failed
C7_ExchangeFailureInv ==
    \A r \in Reqs :
        ExchangeFailed(r) =>
            /\ Obtained(r)
            /\ req[r].sessionId = Undefined
            /\ req[r].tokens = Empty
            /\ req[r].cookie = Empty
            /\ req[r].response = Empty
            /\ ~isSiteSession(randomUUID(MaxSignIns + r))
            /\ ~IsOAuthSession(req[r].oauthSessionId)
            /\ \A q \in Reqs \ {r} :
                   (Consumed(q) /\ req[q].oauthSessionId = req[r].oauthSessionId)
                       => NotFound(q)

\* C7: a callback whose token exchange fails (the state of the URL is not
\* the stored one, the provider does not redeem the code, the network fails)
\* throws: it has no session id, no cookie and no response, no site session
\* record is written for it, and the failing step changes nothing in the KV
\* store; the OAuth session it consumed is gone, so every other callback
\* with the same cookie whose consume is served after it fails with
\* not-found.
C7_ExchangeFailure ==
    /\ []C7_ExchangeFailureInv
    /\ [][\A r \in Reqs :
            (/\ req[r].pc = "exchange"
             /\ req'[r].pc # "exchange"
             /\ ~GetTokenSucceeds(req[r].request.url, req[r].oauthSession, TRUE))
            => ExchangeFailed(r)']_vars
    /\ [][\A r \in Reqs :
            (req[r].pc = "exchange" /\ ExchangeFailed(r)') =>
                (oauth' = oauth /\ site' = site)]_vars

C7_Witness ==
    \E r, q \in Reqs :
        /\ r # q
        /\ ExchangeFailed(r)
        /\ req[q].oauthSessionId = req[r].oauthSessionId
        /\ NotFound(q)

\* C8: a callback gets a session id, a cookie or a response, and a site
\* session record is written, only after getToken accepted the callback URL
\* against the state and codeVerifier of the OAuth session that the same
\* callback consumed, which is the one signIn stored under the cookie's id.
C8_SessionOnlyIfValidated ==
    \A r \in Reqs :
        (\/ req[r].sessionId # Undefined
         \/ req[r].cookie # Empty
         \/ req[r].response # Empty
         \/ isSiteSession(randomUUID(MaxSignIns + r)))
        => /\ Obtained(r)
           /\ req[r].exchanged
           /\ req[r].oauthSessionId \in DOMAIN signIns
           /\ req[r].oauthSession = signIns[req[r].oauthSessionId].oauthSession
           /\ req[r].request.url.state = req[r].oauthSession.state
           /\ ProviderAccepts(req[r].request.url.code, req[r].oauthSession.codeVerifier)

C8_Witness ==
    \E r, q \in Reqs :
        /\ req[r].pc = "done"
        /\ isSiteSession(req[r].sessionId)
        /\ ExchangeFailed(q)
        /\ req[q].request.url.state # req[q].oauthSession.state
        /\ req[q].request.url.code = req[q].oauthSession.codeVerifier

\* C9: the site session record handleCallback writes expires after
\* maxAge * SECOND when the caller's cookieOptions give a maxAge, and never
\* when they give none.
C9_TtlIsMaxAge ==
    \A r \in Reqs :
        (req[r].pc = "done" /\ isSiteSession(req[r].sessionId)) =>
            site[req[r].sessionId].expireIn =
                IF "maxAge" \in DOMAIN options
                THEN options.maxAge * SECOND
                ELSE Undefined

\* C10: a callback whose OAuth session expired before its
\* getAndDeleteOAuthSession call was served fails with not-found; no token
\* exchange is started and no site session is made.
C10_ExpiredNotFound ==
    \A r \in Reqs :
        (Consumed(r) /\ req[r].oauthSessionId \in expired) =>
            (NotFound(r) /\ NothingAfterConsume(r))

C10_Witness ==
    \E r \in Reqs :
        /\ req[r].oauthSessionId \in expired
        /\ NotFound(r)

\* The request that carries the cookie (name, value)
CarryingCookie(c) ==
    [https |-> origin.https, cookies |-> (c[1] :> c[2]), url |-> Empty]

\* C11: in every state, what getSessionId returns for a request carrying a
\* site cookie that a callback made, or that signOut was called with, is
\* either the cookie's value, and then a site session is stored under it, or
\* undefined; it is undefined when no site session is stored under the
\* cookie's value (not yet written, deleted by signOut, expired).
C11_LookupOnlyLiveSessions ==
    /\ \A r \in Reqs :
           req[r].cookie # Empty =>
               LET sessionId == HelperGetSessionId(CarryingCookieOf(r))
               IN /\ sessionId # Undefined =>
                         (sessionId = req[r].cookie.value /\ isSiteSession(sessionId))
                  /\ ~isSiteSession(req[r].cookie.value) => sessionId = Undefined
    /\ \A c \in signedOut :
           HelperGetSessionId(CarryingCookie(c)) = Undefined

C11_Witness ==
    \E r, q \in Reqs :
        /\ req[r].pc = "done"
        /\ req[r].cookie.value = req[r].sessionId
        /\ <<req[r].cookie.name, req[r].sessionId>> \in signedOut
        /\ HelperGetSessionId(CarryingCookieOf(r)) = Undefined
        /\ req[q].pc = "done"
        /\ HelperGetSessionId(CarryingCookieOf(q)) = req[q].sessionId

\* The cookie of the request names no stored site session: the request has no
\* site cookie, or the record under the cookie's value is gone
NoSessionFor(cookies) ==
    LET sessionId == getCookie([https |-> origin.https, cookies |-> cookies,
                                url |-> Empty],
                               SiteCookieName(Prop(options, "name", "")))
    IN sessionId = Undefined \/ ~isSiteSession(sessionId)

\* C12 (state part): signOut answers every request with a 302 redirect to
\* "/", and a site session that signOut deleted is not stored again, so a
\* second signOut has nothing left to delete.
C12_SignOutInv ==
    /\ \A cookies \in SiteCookies :
           LET response == signOutResponse([https |-> origin.https,
                                            cookies |-> cookies, url |-> Empty])
           IN response.status = 302 /\ response.location = "/"
    /\ \A c \in signedOut : ~isSiteSession(c[2])

\* C12: signOut is idempotent: a signOut of a request without the site cookie,
\* or with a cookie whose record is gone, leaves both stores as they were,
\* and every signOut leaves the state in which a signOut without the cookie,
\* or with the same cookie again, changes nothing.
C12_SignOutIdempotent ==
    /\ []C12_SignOutInv
    /\ [][\A cookies \in SiteCookies :
              SignOut(cookies) =>
                  /\ NoSessionFor(cookies) => (site' = site /\ oauth' = oauth)
                  /\ oauth' = oauth
                  /\ NoSessionFor(cookies)'
                  /\ NoSessionFor(Empty)']_vars

C12_Witness ==
    \E r \in Reqs :
        /\ req[r].pc = "done"
        /\ <<req[r].cookie.name, req[r].cookie.value>> \in signedOut
        /\ req[r].cookie.value = req[r].sessionId
        /\ ~isSiteSession(req[r].sessionId)
        /\ CookieJar(req[r].cookie) \in SiteCookies
        /\ \E q \in Reqs : isSiteSession(req[q].sessionId)

\* C13: a callback request that carries the cookie a sign-in set, on the
\* same scheme as that sign-in, finds the cookie: the name handleCallback
\* looks up is the name the sign-in's cookie has, whatever cookieOptions
\* (a name override included) the helpers were created with, and the id it
\* reads is that sign-in's.
C13_SameOAuthCookieName ==
    \A r \in Reqs, h \in DOMAIN signIns :
        ( /\ req[r].pc # "idle"
          /\ req[r].request.cookies = CookieJar(signIns[h].cookie)
          /\ isHttps(req[r].request) = isHttps(signIns[h].request) )
        => /\ getCookieName(OAUTH_COOKIE_NAME, isHttps(req[r].request))
                  = signIns[h].cookie.name
           /\ req[r].error # "OAuth cookie not found"
           /\ req[r].oauthSessionId = h

C13_Witness ==
    /\ Prop(options, "name", "") = "custom"
    /\ \E r \in Reqs, h \in DOMAIN signIns :
           /\ req[r].pc = "done"
           /\ req[r].request.cookies = CookieJar(signIns[h].cookie)
           /\ req[r].oauthSessionId = h
           /\ req[r].cookie.name = "custom"

\* C14 (state part): every sign-in answered with a 302 redirect to the
\* authorization URL that sets one cookie, the OAuth cookie, to the id of
\* its handshake record; the record holds state, codeVerifier and
\* successUrl, the successUrl being the option when given, else the Referer
\* header when present, else "/"; and while the record is stored, it is
\* stored under that id with that value.
C14_SignInInv ==
    \A h \in DOMAIN signIns :
        LET s == signIns[h]
        IN /\ s.response.status = 302
           /\ s.response.location = AUTHORIZATION_URL
           /\ s.response.cookies = {s.cookie}
           /\ s.cookie.name = getCookieName(OAUTH_COOKIE_NAME, isHttps(s.request))
           /\ s.cookie.value = h
           /\ DOMAIN s.oauthSession = {"state", "codeVerifier", "successUrl"}
           /\ s.input.successUrl # NoUrl =>
                  s.oauthSession.successUrl = s.input.successUrl
           /\ (s.input.successUrl = NoUrl /\ s.input.referer # NoUrl) =>
                  s.oauthSession.successUrl = s.input.referer
           /\ (s.input.successUrl = NoUrl /\ s.input.referer = NoUrl) =>
                  s.oauthSession.successUrl = "/"
           /\ IsOAuthSession(h) => oauth[h].value = s.oauthSession

\* C14: each signIn that succeeds stores exactly one handshake record, under
\* an id that named no record before, and changes no other record; its
\* response and the record are as C14_SignInInv says.
C14_SignInCreatesOne ==
    /\ []C14_SignInInv
    /\ [][signIns' # signIns =>
              \E h \in DOMAIN signIns' :
                  /\ h \notin DOMAIN signIns
                  /\ h \notin DOMAIN oauth
                  /\ h \notin expired
                  /\ \A r \in Reqs : req[r].oauthSessionId # h
                  /\ DOMAIN signIns' = DOMAIN signIns \cup {h}
                  /\ DOMAIN oauth' = DOMAIN oauth \cup {h}
                  /\ \A k \in DOMAIN oauth : oauth'[k] = oauth[k]
                  /\ oauth'[h].value = signIns'[h].oauthSession
                  /\ site' = site]_vars

C14_Witness ==
    \E h, k \in DOMAIN signIns :
        /\ h # k
        /\ signIns[h].input = [successUrl |-> "/dashboard", referer |-> "/from"]
        /\ signIns[h].oauthSession.successUrl = "/dashboard"
        /\ signIns[k].input = [successUrl |-> NoUrl, referer |-> NoUrl]
        /\ signIns[k].oauthSession.successUrl = "/"
        /\ IsOAuthSession(h) /\ IsOAuthSession(k)

\* The redirect half of the happy path: a returned callback's response is a
\* 302 redirect to the successUrl of the handshake record it consumed, and
\* sets one cookie
RedirectsToSuccessUrl(r) ==
    /\ req[r].oauthSessionId \in DOMAIN signIns
    /\ req[r].oauthSession = signIns[req[r].oauthSessionId].oauthSession
    /\ req[r].response.status = 302
    /\ req[r].response.location = req[r].oauthSession.successUrl
    /\ Cardinality(req[r].response.cookies) = 1

\* C15: when handleCallback returns for a handshake record with successUrl
\* S, its response redirects to S and sets a site cookie, and getSessionId
\* on a request carrying the cookies of that response returns the sessionId
\* handleCallback returned, as long as that session is stored.
C15_HappyPath ==
    \A r \in Reqs :
        req[r].pc = "done" =>
            /\ RedirectsToSuccessUrl(r)
            /\ \A cookie \in req[r].response.cookies :
                   isSiteSession(req[r].sessionId) =>
                       HelperGetSessionId([https |-> origin.https,
                                           cookies |-> CookieJar(cookie),
                                           url |-> Empty])
                       = req[r].sessionId

\* The name under which the bound getSessionId and signOut look the site
\* cookie up
BoundSiteCookieName == SiteCookieName(Prop(options, "name", ""))

\* C16: whatever cookieOptions the helpers were created with, the site
\* cookie the bound handleCallback wrote has the name the bound getSessionId
\* and signOut look up, and under that name they find the id of the session
\* that handleCallback stored: getSessionId resolves it while it is stored,
\* and it is the record signOut deletes.
C16_BoundNamesAgree ==
    \A r \in Reqs :
        req[r].pc = "done" =>
            /\ req[r].cookie.name = BoundSiteCookieName
            /\ getCookie(CarryingCookieOf(r), BoundSiteCookieName) = req[r].sessionId
            /\ isSiteSession(req[r].sessionId) =>
                   HelperGetSessionId(CarryingCookieOf(r)) # Undefined

\* The callback in slot r has the record, the exchange behind it and tokens
ConsumedAndExchanged(r) ==
    /\ Obtained(r)
    /\ ~IsOAuthSession(req[r].oauthSessionId)
    /\ req[r].exchanged
    /\ req[r].tokens # Empty

\* C17 (state part): a callback that is at or past the token exchange holds
\* the handshake record, which is no longer stored; a callback that is at
\* or past the write of the site session has exchanged the code for tokens;
\* and every site session in the store is the one of a returned callback
\* that consumed a record and exchanged successfully.
C17_OrderInv ==
    /\ \A r \in Reqs :
           /\ (req[r].pc = "exchange" \/ req[r].exchanged) =>
                  (Obtained(r) /\ ~IsOAuthSession(req[r].oauthSessionId))
           /\ (req[r].pc \in {"write", "done"}
                  \/ isSiteSession(randomUUID(MaxSignIns + r))) =>
                  ConsumedAndExchanged(r)
    /\ \A id \in DOMAIN site :
           \E r \in Reqs :
               /\ req[r].pc = "done"
               /\ req[r].sessionId = id
               /\ ConsumedAndExchanged(r)

\* C17: in every handleCallback the steps come in order: the exchange ends
\* only in a callback that is at the exchange and holds the consumed
\* record, and a site session is added only by a callback that is at the
\* write, after its exchange succeeded.
C17_StrictOrder ==
    /\ []C17_OrderInv
    /\ [][\A r \in Reqs :
              /\ (req[r].exchanged' /\ ~req[r].exchanged) =>
                     (req[r].pc = "exchange" /\ Obtained(r)
                          /\ ~IsOAuthSession(req[r].oauthSessionId))
              /\ (isSiteSession(randomUUID(MaxSignIns + r))'
                     /\ ~isSiteSession(randomUUID(MaxSignIns + r))) =>
                     (req[r].pc = "write" /\ req'[r].pc = "done"
                          /\ ConsumedAndExchanged(r))]_vars

C17_Witness ==
    \E r, q \in Reqs :
        /\ req[r].pc = "done"
        /\ isSiteSession(req[r].sessionId)
        /\ ConsumedAndExchanged(r)
        /\ req[q].pc = "exchange"
        /\ ~isSiteSession(randomUUID(MaxSignIns + q))

\* The callbacks that presented the handshake cookie of id h
CallbacksOf(h) == {r \in Reqs : req[r].oauthSessionId = h}

\* The callbacks that created a site session, and the handshake records
\* that some callback consumed
SessionCreators == {r \in Reqs : req[r].pc = "done"}

ConsumedRecords == {h \in DOMAIN signIns : \E r \in CallbacksOf(h) : Obtained(r)}

\* C18: however the callbacks interleave, of the callbacks that present one
\* handshake cookie at most one gets to the token exchange and at most one
\* creates a site session, and there are never more site sessions created
\* than handshake records consumed.
C18_AtMostOnePerRecord ==
    /\ \A h \in DOMAIN signIns \cup {UnknownId} :
           /\ Cardinality({r \in CallbacksOf(h) :
                              req[r].pc = "exchange" \/ req[r].exchanged}) <= 1
           /\ Cardinality({r \in CallbacksOf(h) :
                              \/ req[r].sessionId # Undefined
                              \/ isSiteSession(randomUUID(MaxSignIns + r))}) <= 1
    /\ Cardinality(SessionCreators) <= Cardinality(ConsumedRecords)
    /\ Cardinality(DOMAIN site) <= Cardinality(ConsumedRecords)

C18_Witness ==
    \E r1, r2 \in Reqs :
        /\ r1 # r2
        /\ req[r1].oauthSessionId = req[r2].oauthSessionId
        /\ req[r1].exchanged /\ req[r1].pc = "done"
        /\ isSiteSession(req[r1].sessionId)
        /\ req[r2].pc = "failed" /\ ~req[r2].exchanged
        /\ req[r2].sessionId = Undefined
        /\ Cardinality(ConsumedRecords) = 1

\* C19 (state part): the site session id of a callback is not the id of its
\* or any other handshake record, and no two callbacks have the same one.
C19_FreshIdInv ==
    \A r \in Reqs :
        req[r].sessionId # Undefined =>
            /\ req[r].sessionId # req[r].oauthSessionId
            /\ req[r].sessionId \notin DOMAIN signIns
            /\ ~IsOAuthSession(req[r].sessionId)
            /\ \A q \in Reqs \ {r} : req[q].sessionId # req[r].sessionId

\* C19: a step of a handleCallback changes the stores in no other way than
\* by deleting the handshake record that the request's handshake cookie
\* names, or by adding one site session under an id that is not in the store
\* and is not the handshake id; every other handshake record and every
\* site session already stored stays as it was, under the key it had.
C19_CallbackFrame ==
    /\ []C19_FreshIdInv
    /\ [][\A r \in Reqs :
              req'[r] # req[r] =>
                  /\ \/ oauth' = oauth
                     \/ /\ req[r].oauthSessionId =
                               getCookie(req[r].request,
                                   getCookieName(OAUTH_COOKIE_NAME,
                                                 isHttps(req[r].request)))
                        /\ IsOAuthSession(req[r].oauthSessionId)
                        /\ oauth' = [k \in DOMAIN oauth \ {req[r].oauthSessionId}
                                        |-> oauth[k]]
                        /\ site' = site
                  /\ \/ site' = site
                     \/ /\ req[r].sessionId \notin DOMAIN site
                        /\ req[r].sessionId # req[r].oauthSessionId
                        /\ DOMAIN site' = DOMAIN site \cup {req[r].sessionId}
                        /\ \A k \in DOMAIN site : site'[k] = site[k]
                        /\ oauth' = oauth]_vars

C19_Witness ==
    \E r, q \in Reqs :
        /\ r # q
        /\ req[r].pc = "done" /\ req[q].pc = "done"
        /\ isSiteSession(req[r].sessionId)
        /\ isSiteSession(req[q].sessionId)
        /\ req[r].sessionId # req[q].sessionId
        /\ req[r].oauthSessionId # req[q].oauthSessionId
        /\ oauth = Empty

\* C20: with a store that enforces the TTL, every handshake record that is
\* in the store is eventually not in it (a callback consumed it, or it
\* expired), and a handshake record that sign-in created and that is no
\* longer in the store is never in it again.
C20_EventuallyAbsent ==
    /\ \A h \in 1..MaxSignIns : IsOAuthSession(h) ~> ~IsOAuthSession(h)
    /\ [][\A h \in DOMAIN signIns :
              ~IsOAuthSession(h) => ~IsOAuthSession(h)']_vars

C20_Witness ==
    \E h, k \in DOMAIN signIns :
        /\ h \in expired
        /\ k \notin expired
        /\ ~IsOAuthSession(h)
        /\ ~IsOAuthSession(k)
        /\ \E r \in Reqs : req[r].oauthSessionId = k /\ Obtained(r)
        /\ \E q \in Reqs : req[q].oauthSessionId = h /\ NotFound(q)

====
